---- MODULE Spec2Model ----
(***************************************************************************)
(* ZynqMP PM client (plat/xilinx/zynqmp/pm_service/pm_client.c):           *)
(*   - the static registry of APU processor descriptors and its lookups,   *)
(*   - the IPI mailbox protocol (pm_ipi_wait / pm_ipi_send /               *)
(*     pm_ipi_buff_read32) run by several cores against one PMU,           *)
(*   - the power-transition actions on the shared APU_PWRCTL register.     *)
(* Every core is a small program counter machine; each memory-mapped       *)
(* access (pm_read / pm_write) and each lock operation is one step.        *)
(***************************************************************************)
EXTENDS Integers, Sequences, FiniteSets, TLC

(***************************************************************************)
(* Bounds of the model.                                                    *)
(***************************************************************************)
\* number of cores that execute the functions concurrently
NumCores == 2
\* words of one payload / of one buffer region (PAYLOAD_ARG_CNT in the code)
PAYLOAD_ARG_CNT == 2
\* values a machine word of the mailbox can take: 0..NumWords-1
NumWords == 2
\* modelled width of the APU_PWRCTL register (bits 0..3 are the cores' bits)
RegBits == 5
\* cpuid arguments tried: 0..MaxCpuId
MaxCpuId == 6
\* node id arguments tried: 0..MaxNodeId
MaxNodeId == 7

(***************************************************************************)
(* Program constants.                                                      *)
(***************************************************************************)
NODE_APU_0 == 2
NODE_APU_1 == 3
NODE_APU_2 == 4
NODE_APU_3 == 5
APU_0_PWRCTL_CPUPWRDWNREQ_MASK == 1
APU_1_PWRCTL_CPUPWRDWNREQ_MASK == 2
APU_2_PWRCTL_CPUPWRDWNREQ_MASK == 4
APU_3_PWRCTL_CPUPWRDWNREQ_MASK == 8
\* (uint32_t)~0 in the code; the largest integer TLC represents stands
\* for it (all that matters: it is no valid index and not below PM_ARRAY_SIZE)
UNDEFINED_CPUID == 2147483647
NULL == "NULL"

Cores == 0 .. (NumCores - 1)
Words == 0 .. (NumWords - 1)
RegValues == 0 .. (2^RegBits - 1)

(***************************************************************************)
(* Bit operations on register values (uint32_t |, &, ~ restricted to the   *)
(* modelled register width).                                               *)
(***************************************************************************)
RECURSIVE BitOr(_, _)
BitOr(a, b) ==
    IF a = 0 THEN b
    ELSE IF b = 0 THEN a
    ELSE (IF a % 2 = 1 \/ b % 2 = 1 THEN 1 ELSE 0) + 2 * BitOr(a \div 2, b \div 2)

RECURSIVE BitAnd(_, _)
BitAnd(a, b) ==
    IF a = 0 \/ b = 0 THEN 0
    ELSE (a % 2) * (b % 2) + 2 * BitAnd(a \div 2, b \div 2)

BitNot(a) == (2^RegBits - 1) - (a % (2^RegBits))

(***************************************************************************)
(* Processor registry: the four static descriptors and pm_procs_all.       *)
(* A pointer to a descriptor is modelled by the descriptor's name.         *)
(***************************************************************************)
pm_apu_0_proc == [node_id |-> NODE_APU_0, pwrdn_mask |-> APU_0_PWRCTL_CPUPWRDWNREQ_MASK]
pm_apu_1_proc == [node_id |-> NODE_APU_1, pwrdn_mask |-> APU_1_PWRCTL_CPUPWRDWNREQ_MASK]
pm_apu_2_proc == [node_id |-> NODE_APU_2, pwrdn_mask |-> APU_2_PWRCTL_CPUPWRDWNREQ_MASK]
pm_apu_3_proc == [node_id |-> NODE_APU_3, pwrdn_mask |-> APU_3_PWRCTL_CPUPWRDWNREQ_MASK]

pm_procs_all == << "pm_apu_0_proc", "pm_apu_1_proc", "pm_apu_2_proc", "pm_apu_3_proc" >>

\* the structure a descriptor pointer points to
Deref(p) ==
    CASE p = "pm_apu_0_proc" -> pm_apu_0_proc
      [] p = "pm_apu_1_proc" -> pm_apu_1_proc
      [] p = "pm_apu_2_proc" -> pm_apu_2_proc
      [] p = "pm_apu_3_proc" -> pm_apu_3_proc

PM_ARRAY_SIZE == Len(pm_procs_all)

primary_proc == "pm_apu_0_proc"

\* faulty variant: the bounds check is off by one
pm_get_proc_OffByOne(cpuid) ==
    IF cpuid < PM_ARRAY_SIZE - 1 THEN pm_procs_all[cpuid + 1] ELSE NULL

pm_get_proc(cpuid) ==
    IF cpuid < PM_ARRAY_SIZE THEN pm_procs_all[cpuid + 1] ELSE NULL

\* the for loop of pm_get_proc_by_node, from index i on
RECURSIVE ProcByNodeFrom(_, _)
ProcByNodeFrom(nid, i) ==
    IF i < PM_ARRAY_SIZE
    THEN IF nid = Deref(pm_procs_all[i + 1]).node_id
         THEN pm_procs_all[i + 1]
         ELSE ProcByNodeFrom(nid, i + 1)
    ELSE NULL

pm_get_proc_by_node(nid) == ProcByNodeFrom(nid, 0)

\* the for loop of pm_get_cpuid, from index i on
RECURSIVE CpuidFrom(_, _)
CpuidFrom(nid, i) ==
    IF i < PM_ARRAY_SIZE
    THEN IF Deref(pm_procs_all[i + 1]).node_id = nid
         THEN i
         ELSE CpuidFrom(nid, i + 1)
    ELSE UNDEFINED_CPUID

\* faulty variant: the loop starts at index 1 and never looks at the first entry
pm_get_cpuid_SkipFirst(nid) == CpuidFrom(nid, 1)

pm_get_cpuid(nid) == CpuidFrom(nid, 0)

RegisteredNodes == { Deref(pm_procs_all[k]).node_id : k \in 1 .. PM_ARRAY_SIZE }


(***************************************************************************)
(* State.                                                                  *)
(***************************************************************************)
VARIABLES
    pc,            \* pc[c]: where core c is inside the function it executes
    op,            \* op[c]: the function core c executes (or executed last)
    lock,          \* pm_secure_lock: the set of cores holding it
    obs,           \* IPI_OBS & IPI_PMU_PM_INT_MASK: a request is pending
    reqbuf,        \* request region of the IPI buffer (PAYLOAD_ARG_CNT words)
    respbuf,       \* response region of the IPI buffer
    pmu,           \* the PMU: "idle", or "responded" (response written, bit not yet cleared)
    payload,       \* payload[c]: argument of core c's latest pm_ipi_send (<< >>: none yet)
    idx,           \* idx[c]: loop variable i of pm_ipi_send
    want,          \* want[c]: value != NULL in core c's pm_ipi_buff_read32
    value,         \* value[c]: *value as stored by pm_ipi_buff_read32
    ret,           \* ret[c]: return value of core c's latest pm_ipi_buff_read32
    clean,         \* clean[c]: no other core wrote request words or the trigger
                   \*   since core c entered its latest pm_ipi_send
    pwrctl,        \* the APU_PWRCTL register
    gic,           \* gic[c]: the GIC cpu interface of core c is enabled
    proc,          \* proc[c]: the descriptor *proc passed to core c's power action
    val,           \* val[c]: the value core c read from APU_PWRCTL
    last,          \* the power action completed last: function, core, and for a
                   \* suspend whether it set a clear bit of the caller's own
    get_proc_call,   \* latest call of pm_get_proc: argument, returned?, result
    by_node_call,    \* latest call of pm_get_proc_by_node: argument, returned?, result
    cpuid_call       \* latest call of pm_get_cpuid: argument, returned?, result

mboxVars == << lock, obs, reqbuf, respbuf, pmu, payload, idx, want, value, ret, clean >>
pwrVars  == << pwrctl, gic, proc, val, last >>
regVars  == << get_proc_call, by_node_call, cpuid_call >>
vars     == << pc, op, mboxVars, pwrVars, regVars >>

PayloadIdx == 1 .. PAYLOAD_ARG_CNT
\* payloads the callers send: one per word value w, holding w, w+1, ... so that
\* any two of them differ in every word and no word position repeats a value
Payloads == { [k \in PayloadIdx |-> (w + k - 1) % NumWords] : w \in Words }
ZeroBuf == [k \in PayloadIdx |-> 0]

\* descriptors a caller may pass: the registered ones and, for the functions
\* that only dereference *proc, descriptors whose node id is not registered
CpuIds == 0 .. MaxCpuId
NodeIds == 0 .. MaxNodeId
UnregisteredNodes == NodeIds \ RegisteredNodes
\* masks of such descriptors: none, a registered core's bit, a bit of no core, all bits
Masks == { 0, APU_1_PWRCTL_CPUPWRDWNREQ_MASK, 2^(RegBits - 1), 2^RegBits - 1 }
RegisteredProcs == { Deref(pm_procs_all[k]) : k \in 1 .. PM_ARRAY_SIZE }
InputProcs == RegisteredProcs \cup
              { [node_id |-> n, pwrdn_mask |-> m] :
                    n \in { x \in UnregisteredNodes : x = 1 \/ x = MaxNodeId }, m \in Masks }

\* a call of a lookup function: its argument, whether it has returned, its result
Pending(a)         == [arg |-> a, done |-> FALSE, ret |-> 0]
GetProcCall(cpuid) == [arg |-> cpuid, done |-> TRUE, ret |-> pm_get_proc(cpuid)]
ByNodeCall(nid)    == [arg |-> nid, done |-> TRUE, ret |-> pm_get_proc_by_node(nid)]
CpuidCall(nid)     == [arg |-> nid, done |-> TRUE, ret |-> pm_get_cpuid(nid)]

NoAction == [fn |-> "none", core |-> 0, fresh |-> FALSE]

InitCores ==
    /\ pc = [c \in Cores |-> "idle"]
    /\ op = [c \in Cores |-> "none"]

InitMbox ==
    /\ lock = {}
    /\ obs = FALSE
    /\ reqbuf = ZeroBuf
    /\ respbuf = ZeroBuf
    /\ pmu = "idle"
    /\ payload = [c \in Cores |-> << >>]
    /\ idx = [c \in Cores |-> 0]
    /\ want = [c \in Cores |-> FALSE]
    /\ value = [c \in Cores |-> 0]
    /\ ret = [c \in Cores |-> 0]
    /\ clean = [c \in Cores |-> FALSE]

InitPwrFixed ==
    /\ pwrctl = 0
    /\ gic = [c \in Cores |-> TRUE]
    /\ proc = [c \in Cores |-> pm_apu_0_proc]
    /\ val = [c \in Cores |-> 0]
    /\ last = NoAction

InitRegFixed ==
    /\ get_proc_call = Pending(0)
    /\ by_node_call = Pending(0)
    /\ cpuid_call = Pending(0)

(***************************************************************************)
(* Mailbox protocol.                                                       *)
(***************************************************************************)
\* what the PMU writes into the response region for a request it read:
\* status echoes the first request word, value the last one
PmuResponse(req) ==
    [k \in PayloadIdx |-> IF k = 1 THEN req[1]
                          ELSE IF k = 2 THEN req[PAYLOAD_ARG_CNT]
                          ELSE 0]

\* a write of another core to the request region or the trigger register
Disturb(c) == [d \in Cores |-> IF d = c THEN clean[d] ELSE FALSE]

\* a caller enters pm_ipi_wait directly (the results of the core's previous
\* call are dead from here on and are reset)
CallWait(c) ==
    /\ pc[c] = "idle"
    /\ pc' = [pc EXCEPT ![c] = "lock_get"]
    /\ op' = [op EXCEPT ![c] = "wait"]
    /\ want' = [want EXCEPT ![c] = FALSE]
    /\ value' = [value EXCEPT ![c] = 0]
    /\ ret' = [ret EXCEPT ![c] = 0]
    /\ UNCHANGED << lock, obs, reqbuf, respbuf, pmu, payload, idx, clean, pwrVars, regVars >>

\* a caller enters pm_ipi_send(proc, p)
CallSend(c, p) ==
    /\ pc[c] = "idle"
    /\ pc' = [pc EXCEPT ![c] = "lock_get"]
    /\ op' = [op EXCEPT ![c] = "send"]
    /\ payload' = [payload EXCEPT ![c] = p]
    /\ idx' = [idx EXCEPT ![c] = 0]
    /\ clean' = [clean EXCEPT ![c] = TRUE]
    /\ want' = [want EXCEPT ![c] = FALSE]
    /\ value' = [value EXCEPT ![c] = 0]
    /\ ret' = [ret EXCEPT ![c] = 0]
    /\ UNCHANGED << lock, obs, reqbuf, respbuf, pmu, pwrVars, regVars >>

\* a caller enters pm_ipi_buff_read32(proc, value); w: value != NULL
CallRecv(c, w) ==
    /\ pc[c] = "idle"
    /\ pc' = [pc EXCEPT ![c] = "lock_get"]
    /\ op' = [op EXCEPT ![c] = "recv"]
    /\ want' = [want EXCEPT ![c] = w]
    /\ value' = [value EXCEPT ![c] = 0]
    /\ ret' = [ret EXCEPT ![c] = 0]
    /\ UNCHANGED << lock, obs, reqbuf, respbuf, pmu, payload, idx, clean, pwrVars, regVars >>

\* faulty variant: the lock is taken without waiting for it to be free
WaitLockGet_NoExclusion(c) ==
    /\ pc[c] = "lock_get"
    /\ lock' = lock \cup {c}
    /\ pc' = [pc EXCEPT ![c] = "poll"]
    /\ UNCHANGED << op, obs, reqbuf, respbuf, pmu, payload, idx, want, value, ret, clean,
                    pwrVars, regVars >>

\* bakery_lock_get(&pm_secure_lock): returns once no core holds the lock
WaitLockGet(c) ==
    /\ pc[c] = "lock_get"
    /\ lock = {}
    /\ lock' = lock \cup {c}
    /\ pc' = [pc EXCEPT ![c] = "poll"]
    /\ UNCHANGED << op, obs, reqbuf, respbuf, pmu, payload, idx, want, value, ret, clean,
                    pwrVars, regVars >>

\* faulty variant: the loop may give up while the pending bit is still set
WaitPoll_Timeout(c) ==
    /\ pc[c] = "poll"
    /\ \E giveup \in BOOLEAN :
          pc' = [pc EXCEPT ![c] = IF obs /\ ~giveup THEN "poll" ELSE "lock_release"]
    /\ UNCHANGED << op, mboxVars, pwrVars, regVars >>

\* faulty variant: the poll acknowledges the pending bit it read as set
WaitPoll_AckObs(c) ==
    /\ pc[c] = "poll"
    /\ obs' = FALSE
    /\ pc' = [pc EXCEPT ![c] = IF obs THEN "poll" ELSE "lock_release"]
    /\ UNCHANGED << op, lock, reqbuf, respbuf, pmu, payload, idx, want, value, ret, clean,
                    pwrVars, regVars >>

\* faulty variant: the loop is left after one read, whatever the pending bit says
WaitPoll_NoLoop(c) ==
    /\ pc[c] = "poll"
    /\ pc' = [pc EXCEPT ![c] = "lock_release"]
    /\ UNCHANGED << op, mboxVars, pwrVars, regVars >>

\* one iteration of the while loop: read IPI_OBS, leave the loop when the bit is clear
WaitPoll(c) ==
    /\ pc[c] = "poll"
    /\ pc' = [pc EXCEPT ![c] = IF obs THEN "poll" ELSE "lock_release"]
    /\ UNCHANGED << op, mboxVars, pwrVars, regVars >>

\* where pm_ipi_wait's caller continues
AfterWait(c) ==
    CASE op[c] = "send" -> "write"
      [] op[c] = "recv" -> IF want[c] THEN "read_value" ELSE "read_status"
      [] OTHER          -> "idle"

\* faulty variant: pm_ipi_wait returns without releasing the lock
WaitLockRelease_Keep(c) ==
    /\ pc[c] = "lock_release"
    /\ pc' = [pc EXCEPT ![c] = AfterWait(c)]
    /\ UNCHANGED << op, mboxVars, pwrVars, regVars >>

\* bakery_lock_release(&pm_secure_lock); return PM_RET_SUCCESS
WaitLockRelease(c) ==
    /\ pc[c] = "lock_release"
    /\ lock' = lock \ {c}
    /\ pc' = [pc EXCEPT ![c] = AfterWait(c)]
    /\ UNCHANGED << op, obs, reqbuf, respbuf, pmu, payload, idx, want, value, ret, clean,
                    pwrVars, regVars >>

\* faulty variant: the words are stored from the last offset downwards
SendWrite_Reverse(c) ==
    /\ pc[c] = "write"
    /\ reqbuf' = [reqbuf EXCEPT ![PAYLOAD_ARG_CNT - idx[c]] = payload[c][idx[c] + 1]]
    /\ idx' = [idx EXCEPT ![c] = idx[c] + 1]
    /\ pc' = [pc EXCEPT ![c] = IF idx[c] + 1 < PAYLOAD_ARG_CNT THEN "write" ELSE "trigger"]
    /\ clean' = Disturb(c)
    /\ UNCHANGED << op, lock, obs, respbuf, pmu, payload, want, value, ret, pwrVars, regVars >>

\* one iteration of the for loop: pm_write(buffer_base + offset, payload[i])
SendWrite(c) ==
    /\ pc[c] = "write"
    /\ reqbuf' = [reqbuf EXCEPT ![idx[c] + 1] = payload[c][idx[c] + 1]]
    /\ idx' = [idx EXCEPT ![c] = idx[c] + 1]
    /\ pc' = [pc EXCEPT ![c] = IF idx[c] + 1 < PAYLOAD_ARG_CNT THEN "write" ELSE "trigger"]
    /\ clean' = Disturb(c)
    /\ UNCHANGED << op, lock, obs, respbuf, pmu, payload, want, value, ret, pwrVars, regVars >>

\* pm_write(proc->ipi->base + IPI_TRIG_OFFSET, IPI_PMU_PM_INT_MASK); return
SendTrigger(c) ==
    /\ pc[c] = "trigger"
    /\ obs' = TRUE
    /\ idx' = [idx EXCEPT ![c] = 0]
    /\ pc' = [pc EXCEPT ![c] = "idle"]
    /\ clean' = Disturb(c)
    /\ UNCHANGED << op, lock, reqbuf, respbuf, pmu, payload, want, value, ret, pwrVars, regVars >>

\* faulty variant: the value is read from the first response word
RecvReadValue_WrongWord(c) ==
    /\ pc[c] = "read_value"
    /\ value' = [value EXCEPT ![c] = respbuf[1]]
    /\ pc' = [pc EXCEPT ![c] = "read_status"]
    /\ UNCHANGED << op, lock, obs, reqbuf, respbuf, pmu, payload, idx, want, ret, clean,
                    pwrVars, regVars >>

\* *value = pm_read(buffer_base + PAYLOAD_ARG_SIZE)
RecvReadValue(c) ==
    /\ pc[c] = "read_value"
    /\ value' = [value EXCEPT ![c] = respbuf[2]]
    /\ pc' = [pc EXCEPT ![c] = "read_status"]
    /\ UNCHANGED << op, lock, obs, reqbuf, respbuf, pmu, payload, idx, want, ret, clean,
                    pwrVars, regVars >>

\* return pm_read(buffer_base)
RecvReadStatus(c) ==
    /\ pc[c] = "read_status"
    /\ ret' = [ret EXCEPT ![c] = respbuf[1]]
    /\ pc' = [pc EXCEPT ![c] = "idle"]
    /\ UNCHANGED << op, lock, obs, reqbuf, respbuf, pmu, payload, idx, want, value, clean,
                    pwrVars, regVars >>

\* the PMU takes the pending request: reads the request region, writes the response
PmuHandle ==
    /\ obs
    /\ pmu = "idle"
    /\ respbuf' = PmuResponse(reqbuf)
    /\ pmu' = "responded"
    /\ UNCHANGED << pc, op, lock, obs, reqbuf, payload, idx, want, value, ret, clean,
                    pwrVars, regVars >>

\* the PMU clears the pending bit: the request is handled
PmuClear ==
    /\ pmu = "responded"
    /\ obs' = FALSE
    /\ pmu' = "idle"
    /\ UNCHANGED << pc, op, lock, reqbuf, respbuf, payload, idx, want, value, ret, clean,
                    pwrVars, regVars >>

MboxCall(c) ==
    \/ CallWait(c)
    \/ \E p \in Payloads : CallSend(c, p)
    \/ \E w \in BOOLEAN : CallRecv(c, w)

MboxStep(c) ==
    \/ WaitLockGet(c)
    \/ WaitPoll(c)
    \/ WaitLockRelease(c)
    \/ SendWrite(c)
    \/ SendTrigger(c)
    \/ RecvReadValue(c)
    \/ RecvReadStatus(c)

Pmu == PmuHandle \/ PmuClear

Init == InitCores /\ InitMbox /\ InitPwrFixed /\ InitRegFixed

Next ==
    \/ \E c \in Cores : MboxCall(c)
    \/ \E c \in Cores : MboxStep(c)
    \/ Pmu

Spec == Init /\ [][Next]_vars


(***************************************************************************)
(* The mailbox protocol with a live PMU, a fair lock and cores that keep   *)
(* executing: a core inside a function takes its next step, a core that    *)
(* waits for the lock gets it if it is free again and again, and the PMU   *)
(* handles every pending request.  Callers are free never to call.         *)
(***************************************************************************)
CoreRun(c) ==
    \/ WaitPoll(c)
    \/ WaitLockRelease(c)
    \/ SendWrite(c)
    \/ SendTrigger(c)
    \/ RecvReadValue(c)
    \/ RecvReadStatus(c)

Fairness ==
    /\ \A c \in Cores : WF_vars(CoreRun(c))
    /\ \A c \in Cores : SF_vars(WaitLockGet(c))
    /\ WF_vars(Pmu)

FairSpec == Init /\ [][Next]_vars /\ Fairness

(***************************************************************************)
(* Claims about the mailbox protocol.                                      *)
(***************************************************************************)
\* core c has written a payload word of its send and not yet the trigger
MidSend(c) == op[c] = "send" /\ pc[c] \in {"write", "trigger"} /\ idx[c] > 0
\* core c has read the value word of the response and not yet the status word
MidRecv(c) == op[c] = "recv" /\ pc[c] = "read_status" /\ want[c]
\* core c is inside pm_ipi_wait
InWait(c) == pc[c] \in {"lock_get", "poll", "lock_release"}

\* C1: no core writes a request word while another core is between its first
\* payload write and its trigger write, or is between its two response reads:
\* the buffer accesses of different cores are serialized.
C1_BufferAccessSerialized ==
    [][\A c \in Cores :
          (pc[c] = "write" /\ idx'[c] = idx[c] + 1)
              => \A d \in Cores \ {c} : ~MidSend(d) /\ ~MidRecv(d)]_vars

\* C2: at most one request is outstanding: no core writes the trigger register
\* while the pending bit of an earlier request is still set.
C2_OneOutstanding ==
    [][\A c \in Cores : (pc[c] = "trigger" /\ pc'[c] = "idle") => ~obs]_vars

\* what pm_ipi_buff_read32 of core c delivered is the PMU's response to the
\* payload of core c's latest send
GotOwnResponse(c) ==
    /\ ret[c] = PmuResponse(payload[c])[1]
    /\ want[c] => value[c] = PmuResponse(payload[c])[2]

\* C3: a send followed by a receive of the same core, with no write of another
\* core to the request region or the trigger in between, returns the status
\* (and value) the PMU wrote for that payload, and the response region is read
\* only after the PMU has cleared the pending bit of that request.
C3_RoundTrip ==
    \A c \in Cores :
        (op[c] = "recv" /\ clean[c]) =>
            /\ pc[c] \in {"read_value", "read_status"} =>
                  (~obs /\ pmu = "idle" /\ respbuf = PmuResponse(payload[c]))
            /\ pc[c] = "idle" => GotOwnResponse(c)

\* reached: a receive that asked for the value returned the response to a
\* non-zero payload, undisturbed
C3_Witness ==
    \E c \in Cores :
        /\ op[c] = "recv" /\ clean[c] /\ pc[c] = "idle" /\ want[c]
        /\ payload[c][1] = 1 /\ ret[c] = 1 /\ value[c] = payload[c][PAYLOAD_ARG_CNT]
        /\ \E d \in Cores \ {c} : payload[d] # << >> /\ payload[d] # payload[c]

\* C4: under every interleaving, what a core's receive returns is the PMU's
\* response to that core's own most recent request.
C4_OwnResponse ==
    \A c \in Cores :
        (op[c] = "recv" /\ pc[c] = "idle" /\ payload[c] # << >>) => GotOwnResponse(c)

\* C5: with a live PMU and a fair lock every call of pm_ipi_wait returns, and
\* so every call of pm_ipi_send and pm_ipi_buff_read32 returns.
C5_WaitReturns ==
    \A c \in Cores :
        /\ InWait(c) ~> ~InWait(c)
        /\ (pc[c] # "idle") ~> (pc[c] = "idle")

\* reached: a core waits for the lock while another core polls a pending bit
\* that is set, and the PMU has not yet taken the request
C5_Witness ==
    \E c, d \in Cores :
        /\ pc[c] = "lock_get" /\ pc[d] = "poll" /\ d \in lock
        /\ obs /\ pmu = "idle"


(***************************************************************************)
(* Power-transition actions on APU_PWRCTL.  pm_read and pm_write of the    *)
(* read-modify-write are separate steps.                                   *)
(***************************************************************************)
Bit(v, k) == (v \div 2^k) % 2
AllIdle == \A c \in Cores : pc[c] = "idle"
Done(f, c) == [fn |-> f, core |-> c, fresh |-> FALSE]
\* a completed suspend of core c; fresh: it was called with the caller's own
\* registered descriptor and read that descriptor's bit as clear
DoneSuspend(c) ==
    [fn |-> "suspend", core |-> c,
     fresh |-> /\ pm_get_proc(c) # NULL
               /\ proc[c] = Deref(pm_get_proc(c))
               /\ BitAnd(val[c], proc[c].pwrdn_mask) = 0]

\* core c enters pm_client_suspend(d)
CallSuspend(c, d) ==
    /\ pc[c] = "idle"
    /\ pc' = [pc EXCEPT ![c] = "gic_off"]
    /\ op' = [op EXCEPT ![c] = "suspend"]
    /\ proc' = [proc EXCEPT ![c] = d]
    /\ UNCHANGED << pwrctl, gic, val, last, mboxVars, regVars >>

\* faulty variant: the interface is left enabled before the register is touched
SuspendGicOff_Skip(c) ==
    /\ pc[c] = "gic_off"
    /\ pc' = [pc EXCEPT ![c] = "susp_read"]
    /\ UNCHANGED << op, pwrctl, gic, proc, val, last, mboxVars, regVars >>

\* arm_gic_cpuif_deactivate(): the interface of the executing core
SuspendGicOff(c) ==
    /\ pc[c] = "gic_off"
    /\ gic' = [gic EXCEPT ![c] = FALSE]
    /\ pc' = [pc EXCEPT ![c] = "susp_read"]
    /\ UNCHANGED << op, pwrctl, proc, val, last, mboxVars, regVars >>

\* pm_read(APU_PWRCTL)
SuspendRead(c) ==
    /\ pc[c] = "susp_read"
    /\ val' = [val EXCEPT ![c] = pwrctl]
    /\ pc' = [pc EXCEPT ![c] = "susp_write"]
    /\ UNCHANGED << op, pwrctl, gic, proc, last, mboxVars, regVars >>

\* faulty variant: the mask alone is written, the bits read are dropped
SuspendWrite_Overwrite(c) ==
    /\ pc[c] = "susp_write"
    /\ pwrctl' = proc[c].pwrdn_mask
    /\ last' = DoneSuspend(c)
    /\ val' = [val EXCEPT ![c] = 0]
    /\ proc' = [proc EXCEPT ![c] = pm_apu_0_proc]
    /\ pc' = [pc EXCEPT ![c] = "idle"]
    /\ UNCHANGED << op, gic, mboxVars, regVars >>

\* pm_write(APU_PWRCTL, <value read> | proc->pwrdn_mask); return
SuspendWrite(c) ==
    /\ pc[c] = "susp_write"
    /\ pwrctl' = BitOr(val[c], proc[c].pwrdn_mask)
    /\ last' = DoneSuspend(c)
    /\ val' = [val EXCEPT ![c] = 0]
    /\ proc' = [proc EXCEPT ![c] = pm_apu_0_proc]
    /\ pc' = [pc EXCEPT ![c] = "idle"]
    /\ UNCHANGED << op, gic, mboxVars, regVars >>

\* core c enters pm_client_abort_suspend()
CallAbort(c) ==
    /\ pc[c] = "idle"
    /\ pc' = [pc EXCEPT ![c] = "gic_on"]
    /\ op' = [op EXCEPT ![c] = "abort"]
    /\ UNCHANGED << pwrVars, mboxVars, regVars >>

\* arm_gic_cpuif_setup(): the interface of the executing core
AbortGicOn(c) ==
    /\ pc[c] = "gic_on"
    /\ gic' = [gic EXCEPT ![c] = TRUE]
    /\ pc' = [pc EXCEPT ![c] = "abort_read"]
    /\ UNCHANGED << op, pwrctl, proc, val, last, mboxVars, regVars >>

\* pm_read(APU_PWRCTL)
AbortRead(c) ==
    /\ pc[c] = "abort_read"
    /\ val' = [val EXCEPT ![c] = pwrctl]
    /\ pc' = [pc EXCEPT ![c] = "abort_write"]
    /\ UNCHANGED << op, pwrctl, gic, proc, last, mboxVars, regVars >>

\* faulty variant: the primary core's bit is toggled (^=) instead of cleared (&= ~)
AbortWrite_Toggle(c) ==
    /\ pc[c] = "abort_write"
    /\ pwrctl' = IF BitAnd(val[c], Deref(primary_proc).pwrdn_mask) = 0
                 THEN BitOr(val[c], Deref(primary_proc).pwrdn_mask)
                 ELSE BitAnd(val[c], BitNot(Deref(primary_proc).pwrdn_mask))
    /\ last' = Done("abort", c)
    /\ val' = [val EXCEPT ![c] = 0]
    /\ pc' = [pc EXCEPT ![c] = "idle"]
    /\ UNCHANGED << op, gic, proc, mboxVars, regVars >>

\* pm_write(APU_PWRCTL, <value read> & ~primary_proc->pwrdn_mask); return
AbortWrite(c) ==
    /\ pc[c] = "abort_write"
    /\ pwrctl' = BitAnd(val[c], BitNot(Deref(primary_proc).pwrdn_mask))
    /\ last' = Done("abort", c)
    /\ val' = [val EXCEPT ![c] = 0]
    /\ pc' = [pc EXCEPT ![c] = "idle"]
    /\ UNCHANGED << op, gic, proc, mboxVars, regVars >>

\* core c enters pm_client_wakeup(d)
CallWakeup(c, d) ==
    /\ pc[c] = "idle"
    /\ pc' = [pc EXCEPT ![c] = "wake_lookup"]
    /\ op' = [op EXCEPT ![c] = "wakeup"]
    /\ proc' = [proc EXCEPT ![c] = d]
    /\ UNCHANGED << pwrctl, gic, val, last, mboxVars, regVars >>

\* faulty variant: the sentinel is not tested, the register is read and written anyway
WakeupLookup_NoCheck(c) ==
    /\ pc[c] = "wake_lookup"
    /\ val' = [val EXCEPT ![c] = pwrctl]
    /\ pc' = [pc EXCEPT ![c] = "wake_write"]
    /\ UNCHANGED << op, pwrctl, gic, proc, last, mboxVars, regVars >>

\* cpuid = pm_get_cpuid(proc->node_id); if (UNDEFINED_CPUID != cpuid)
\* val = pm_read(APU_PWRCTL), else the body is skipped
WakeupLookup(c) ==
    /\ pc[c] = "wake_lookup"
    /\ IF UNDEFINED_CPUID # pm_get_cpuid(proc[c].node_id)
       THEN /\ val' = [val EXCEPT ![c] = pwrctl]
            /\ pc' = [pc EXCEPT ![c] = "wake_write"]
       ELSE /\ pc' = [pc EXCEPT ![c] = "wake_ret"]
            /\ UNCHANGED val
    /\ UNCHANGED << op, pwrctl, gic, proc, last, mboxVars, regVars >>

\* the end of pm_client_wakeup reached with the body skipped: return
WakeupReturn(c) ==
    /\ pc[c] = "wake_ret"
    /\ last' = Done("wakeup", c)
    /\ proc' = [proc EXCEPT ![c] = pm_apu_0_proc]
    /\ pc' = [pc EXCEPT ![c] = "idle"]
    /\ UNCHANGED << op, pwrctl, gic, val, mboxVars, regVars >>

\* val &= ~(proc->pwrdn_mask); pm_write(APU_PWRCTL, val); return
WakeupWrite(c) ==
    /\ pc[c] = "wake_write"
    /\ pwrctl' = BitAnd(val[c], BitNot(proc[c].pwrdn_mask))
    /\ last' = Done("wakeup", c)
    /\ val' = [val EXCEPT ![c] = 0]
    /\ proc' = [proc EXCEPT ![c] = pm_apu_0_proc]
    /\ pc' = [pc EXCEPT ![c] = "idle"]
    /\ UNCHANGED << op, gic, mboxVars, regVars >>

\* core c enters one of the three functions, its descriptor drawn from D
PwrCallFrom(c, D) ==
    \/ \E d \in D : CallSuspend(c, d)
    \/ CallAbort(c)
    \/ \E d \in D : CallWakeup(c, d)

PwrCall(c) == PwrCallFrom(c, InputProcs)

PwrStep(c) ==
    \/ SuspendGicOff(c)
    \/ SuspendRead(c)
    \/ SuspendWrite(c)
    \/ AbortGicOn(c)
    \/ AbortRead(c)
    \/ AbortWrite(c)
    \/ WakeupLookup(c)
    \/ WakeupReturn(c)
    \/ WakeupWrite(c)

(***************************************************************************)
(* The power-transition actions executed sequentially: a function is       *)
(* entered only while no core is inside one.  The register and the         *)
(* interfaces start in any state.                                          *)
(***************************************************************************)
InitPwrAny ==
    /\ pwrctl \in RegValues
    /\ gic \in [Cores -> BOOLEAN]
    /\ proc = [c \in Cores |-> pm_apu_0_proc]
    /\ val = [c \in Cores |-> 0]
    /\ last = NoAction

PwrSeqInit == InitCores /\ InitMbox /\ InitPwrAny /\ InitRegFixed

PwrSeqNext ==
    \/ \E c \in Cores : AllIdle /\ PwrCall(c)
    \/ \E c \in Cores : PwrStep(c)

PwrSeqSpec == PwrSeqInit /\ [][PwrSeqNext]_vars


(***************************************************************************)
(* Claims about the power-transition actions.                              *)
(***************************************************************************)
\* core c takes a step of the function it executes
Steps(c) == pc[c] # "idle" /\ pc'[c] # pc[c]
PrimaryMask == Deref(primary_proc).pwrdn_mask
\* register value w is v with the bits of mask m set / cleared, bit by bit
SetsExactly(v, m, w) ==
    \A k \in 0 .. (RegBits - 1) : Bit(w, k) = IF Bit(m, k) = 1 THEN 1 ELSE Bit(v, k)
ClearsExactly(v, m, w) ==
    \A k \in 0 .. (RegBits - 1) : Bit(w, k) = IF Bit(m, k) = 1 THEN 0 ELSE Bit(v, k)

\* C8: pm_client_abort_suspend is idempotent: a second call right after a
\* first one (same core, nothing in between) changes neither APU_PWRCTL nor
\* the interrupt interfaces; after each call the primary core's bit is clear
\* and the caller's interface enabled, and a call changes no other bit.
C8_AbortIdempotent ==
    /\ [](\A c \in Cores :
            (AllIdle /\ last.fn = "abort" /\ last.core = c)
                => (Bit(pwrctl, 0) = 0 /\ gic[c]))
    /\ [][\A c \in Cores :
            /\ (last.fn = "abort" /\ last.core = c /\ op'[c] = "abort"
                    /\ (pc[c] # "idle" \/ pc'[c] # "idle"))
                  => (pwrctl' = pwrctl /\ gic' = gic)
            /\ (pc[c] = "abort_write" /\ Steps(c))
                  => ClearsExactly(pwrctl, PrimaryMask, pwrctl')]_vars

\* reached: a core is about to write the register in an abort that directly
\* follows its own completed abort, with other bits of the register set
C8_Witness ==
    \E c \in Cores :
        /\ last.fn = "abort" /\ last.core = c
        /\ op[c] = "abort" /\ pc[c] = "abort_write"
        /\ pwrctl >= 2

\* C9: pm_client_wakeup(d) for a d whose node id is not registered writes
\* nothing to APU_PWRCTL, whatever the register holds and whatever mask d carries.
C9_WakeupUnregisteredNoWrite ==
    [][\A c \in Cores :
          (op[c] = "wakeup" /\ Steps(c) /\ proc[c].node_id \notin RegisteredNodes)
              => (pwrctl' = pwrctl /\ pc'[c] \in {"wake_ret", "idle"})]_vars

\* reached: a wakeup for an unregistered descriptor is about to return, having
\* skipped the write, while the bit of the descriptor's mask (the bit of a
\* registered core) is set in the register
C9_Witness ==
    \E c \in Cores :
        /\ op[c] = "wakeup" /\ pc[c] = "wake_ret"
        /\ proc[c].node_id \notin RegisteredNodes
        /\ proc[c].pwrdn_mask = APU_1_PWRCTL_CPUPWRDWNREQ_MASK
        /\ Bit(pwrctl, 1) = 1

\* C10: executed sequentially, suspend(d) sets exactly the bits of d's mask
\* and leaves the caller's interface disabled, wakeup(d) clears exactly the
\* bits of d's mask, abort_suspend clears exactly the primary descriptor's
\* bit, and no other step changes the register.
C10_OnlyTargetBit ==
    [][/\ \A c \in Cores :
            /\ (pc[c] = "susp_write" /\ Steps(c))
                  => (SetsExactly(pwrctl, proc[c].pwrdn_mask, pwrctl') /\ ~gic'[c])
            /\ (pc[c] = "wake_write" /\ Steps(c))
                  => ClearsExactly(pwrctl, proc[c].pwrdn_mask, pwrctl')
            /\ (pc[c] = "abort_write" /\ Steps(c))
                  => (ClearsExactly(pwrctl, PrimaryMask, pwrctl')
                        /\ Bit(pwrctl', 1) = Bit(pwrctl, 1))
       /\ (pwrctl' # pwrctl)
            => \E c \in Cores : pc[c] \in {"susp_write", "wake_write", "abort_write"}
                                  /\ Steps(c)]_vars

\* reached: after suspend(core_1) set bit 1 beside other set bits, another
\* core is about to clear it in wakeup(core_1)
C10_Witness ==
    \E c \in Cores :
        /\ last.fn = "suspend" /\ last.core # c
        /\ op[c] = "wakeup" /\ pc[c] = "wake_write" /\ proc[c] = pm_apu_1_proc
        /\ Bit(pwrctl, 1) = 1 /\ Bit(pwrctl, 0) = 1 /\ Bit(pwrctl, RegBits - 1) = 1
        /\ ~gic[last.core]

(***************************************************************************)
(* The registry lookups applied to arguments drawn from bounded sets, and  *)
(* to each other's results.                                                *)
(***************************************************************************)
\* pm_get_proc(cpuid) returns
GetProc ==
    /\ ~get_proc_call.done
    /\ get_proc_call' = GetProcCall(get_proc_call.arg)
    /\ UNCHANGED << pc, op, mboxVars, pwrVars, by_node_call, cpuid_call >>

\* pm_get_proc_by_node(nid) returns
GetProcByNode ==
    /\ ~by_node_call.done
    /\ by_node_call' = ByNodeCall(by_node_call.arg)
    /\ UNCHANGED << pc, op, mboxVars, pwrVars, get_proc_call, cpuid_call >>

\* pm_get_cpuid(nid) returns
GetCpuid ==
    /\ ~cpuid_call.done
    /\ cpuid_call' = CpuidCall(cpuid_call.arg)
    /\ UNCHANGED << pc, op, mboxVars, pwrVars, get_proc_call, by_node_call >>

\* pm_get_proc(pm_get_cpuid(nid)): the index found is looked up
GetProcOfCpuid ==
    /\ cpuid_call.done
    /\ get_proc_call' = GetProcCall(cpuid_call.ret)
    /\ UNCHANGED << pc, op, mboxVars, pwrVars, by_node_call, cpuid_call >>

\* pm_get_cpuid(pm_get_proc(cpuid)->node_id): the node id of the descriptor
\* found is translated back
GetCpuidOfProc ==
    /\ get_proc_call.done
    /\ get_proc_call.ret # NULL
    /\ cpuid_call' = CpuidCall(Deref(get_proc_call.ret).node_id)
    /\ UNCHANGED << pc, op, mboxVars, pwrVars, get_proc_call, by_node_call >>

InitRegAny ==
    /\ get_proc_call \in { Pending(i) : i \in CpuIds }
    /\ by_node_call \in { Pending(n) : n \in NodeIds }
    /\ cpuid_call \in { Pending(n) : n \in NodeIds }

RegInit == InitCores /\ InitMbox /\ InitPwrFixed /\ InitRegAny

RegNext ==
    \/ GetProc
    \/ GetProcByNode
    \/ GetCpuid
    \/ GetProcOfCpuid
    \/ GetCpuidOfProc

RegSpec == RegInit /\ [][RegNext]_vars

(***************************************************************************)
(* Claims about the registry.                                              *)
(***************************************************************************)
\* the declared mapping: logical core index -> descriptor, node id
DeclaredProc == << "pm_apu_0_proc", "pm_apu_1_proc", "pm_apu_2_proc", "pm_apu_3_proc" >>
DeclaredNode == << NODE_APU_0, NODE_APU_1, NODE_APU_2, NODE_APU_3 >>

\* C6: pm_get_proc(cpuid) returns the descriptor at position cpuid, whose node
\* id is the one declared for that core, for cpuid in 0..3, and NULL for every
\* cpuid >= 4.
C6_LookupByIndex ==
    get_proc_call.done =>
        IF get_proc_call.arg < Len(DeclaredProc)
        THEN /\ get_proc_call.ret = DeclaredProc[get_proc_call.arg + 1]
             /\ Deref(get_proc_call.ret).node_id = DeclaredNode[get_proc_call.arg + 1]
        ELSE get_proc_call.ret = NULL

\* reached: the lookup of the last valid index returned its descriptor
C6_Witness ==
    /\ get_proc_call.done
    /\ get_proc_call.arg = 3
    /\ get_proc_call.ret = "pm_apu_3_proc"

\* C7: over the registered node ids pm_get_proc_by_node and pm_get_cpuid are
\* mutual inverses (the descriptor at the index found for n is the descriptor
\* found for n and has node id n; the index found for the node id of the
\* descriptor at i is i); for an unregistered node id the first returns NULL
\* and the second UNDEFINED_CPUID.
C7_MutualInverses ==
    /\ (by_node_call.done /\ by_node_call.arg \notin RegisteredNodes)
          => by_node_call.ret = NULL
    /\ (cpuid_call.done /\ cpuid_call.arg \notin RegisteredNodes)
          => cpuid_call.ret = UNDEFINED_CPUID
    /\ (by_node_call.done /\ by_node_call.arg \in RegisteredNodes)
          => (by_node_call.ret # NULL
                /\ Deref(by_node_call.ret).node_id = by_node_call.arg)
    /\ (cpuid_call.done /\ cpuid_call.arg \in RegisteredNodes
            /\ get_proc_call.done /\ get_proc_call.arg = cpuid_call.ret
            /\ by_node_call.done /\ by_node_call.arg = cpuid_call.arg)
          => get_proc_call.ret = by_node_call.ret
    /\ (get_proc_call.done /\ get_proc_call.ret # NULL
            /\ cpuid_call.done
            /\ cpuid_call.arg = Deref(get_proc_call.ret).node_id)
          => cpuid_call.ret = get_proc_call.arg

\* reached: for the first registered node id, the descriptor at the index found
\* and the descriptor found by node id are both there to compare
C7_Witness ==
    /\ cpuid_call.done /\ cpuid_call.arg = NODE_APU_0
    /\ get_proc_call.done /\ get_proc_call.arg = cpuid_call.ret
    /\ by_node_call.done /\ by_node_call.arg = NODE_APU_0
    /\ get_proc_call.ret = "pm_apu_0_proc"

(***************************************************************************)
(* Further claims about the mailbox protocol.                              *)
(***************************************************************************)
\* C11: pm_ipi_buff_read32 returns the first response word as it stands in the
\* response region; it reads and stores the second response word if and only
\* if the caller passed a value pointer; and none of its steps writes the
\* request region, the response region or the trigger.
C11_ReceiveReadsOnly ==
    [][\A c \in Cores :
          (op[c] = "recv" /\ Steps(c)) =>
              /\ reqbuf' = reqbuf /\ respbuf' = respbuf /\ obs' = obs
              /\ pc[c] = "read_status" => (ret'[c] = respbuf[1] /\ pc'[c] = "idle")
              /\ pc[c] = "read_value" => (want[c] /\ value'[c] = respbuf[2])
              /\ pc[c] # "read_value" => value'[c] = value[c]
              /\ pc[c] = "lock_release" =>
                    pc'[c] = IF want[c] THEN "read_value" ELSE "read_status"]_vars

\* reached: a receive that asked for the value returned a status and a value
\* that differ, as they stood in the response region
C11_Witness ==
    \E c \in Cores :
        /\ op[c] = "recv" /\ pc[c] = "idle" /\ want[c]
        /\ ret[c] = respbuf[1] /\ value[c] = respbuf[2] /\ ret[c] # value[c]

\* C12: inside one pm_ipi_send the wait comes first (no payload word is written
\* before the pending bit was read clear and pm_ipi_wait returned), then the
\* payload words are written to the request region in index order 0..N-1, one
\* per step, then the trigger is written once, after the last word, and the
\* function returns at once, the request still pending.
C12_SendOrder ==
    /\ [](\A c \in Cores :
            op[c] = "send" =>
                /\ InWait(c) => idx[c] = 0
                /\ pc[c] = "write" => idx[c] < PAYLOAD_ARG_CNT
                /\ pc[c] = "trigger" => idx[c] = PAYLOAD_ARG_CNT)
    /\ [][\A c \in Cores :
             /\ (op[c] = "send" /\ (Steps(c) \/ idx'[c] # idx[c])) =>
                   /\ (pc[c] = "poll") => (~obs /\ pc'[c] = "lock_release")
                   /\ (pc[c] = "lock_release") => (pc'[c] = "write" /\ reqbuf' = reqbuf)
                   /\ (pc[c] = "write") =>
                         /\ reqbuf' = [reqbuf EXCEPT ![idx[c] + 1] = payload[c][idx[c] + 1]]
                         /\ idx'[c] = idx[c] + 1
                         /\ obs' = obs
                   /\ (pc[c] = "trigger") =>
                         (obs' /\ reqbuf' = reqbuf /\ pc'[c] = "idle")
                   /\ (pc[c] # "write") => reqbuf' = reqbuf
                   /\ (pc[c] # "trigger") => obs' = obs
             /\ (pc'[c] = "trigger" /\ pc[c] # "trigger") =>
                   (op[c] = "send" /\ pc[c] = "write" /\ idx[c] = PAYLOAD_ARG_CNT - 1)]_vars

\* reached: a send has returned, its whole payload stands in the request region
\* and the request is still pending, the PMU not having touched it
C12_Witness ==
    \E c \in Cores :
        /\ op[c] = "send" /\ pc[c] = "idle"
        /\ obs /\ pmu = "idle"
        /\ reqbuf = payload[c] /\ reqbuf[1] # reqbuf[PAYLOAD_ARG_CNT]

\* C13: at most one core holds pm_secure_lock, only a core inside pm_ipi_wait
\* holds it, and it is free whenever no core is inside pm_ipi_wait: no core
\* holds it while writing payload words or the trigger or reading the response.
C13_LockOnlyInsideWait ==
    /\ Cardinality(lock) <= 1
    /\ \A c \in lock : pc[c] \in {"poll", "lock_release"}
    /\ \A c \in Cores : pc[c] \in {"poll", "lock_release"} => c \in lock
    /\ (\A c \in Cores : ~InWait(c)) => lock = {}
    /\ \A c \in Cores :
          pc[c] \in {"write", "trigger", "read_value", "read_status"} => c \notin lock

\* reached: one core holds the lock polling a pending request while another
\* core, past its wait, is in the middle of its payload writes without the lock
C13_Witness ==
    \E c, d \in Cores :
        /\ lock = {c} /\ pc[c] = "poll" /\ obs
        /\ pc[d] = "write" /\ idx[d] > 0 /\ d \notin lock

(***************************************************************************)
(* Further claims about the power-transition actions.                      *)
(***************************************************************************)
\* C14: pm_client_suspend disables the caller's interrupt interface before it
\* reads and writes APU_PWRCTL, and pm_client_abort_suspend enables it before
\* it reads and writes APU_PWRCTL: the step of suspend that sets the bit is
\* taken with the caller's interface disabled, the step of abort_suspend that
\* clears the bit with it enabled, and the interface steps leave the register
\* alone.
C14_InterfaceBeforeBit ==
    /\ [](\A c \in Cores :
            /\ pc[c] \in {"susp_read", "susp_write"} => ~gic[c]
            /\ pc[c] \in {"abort_read", "abort_write"} => gic[c])
    /\ [][\A c \in Cores :
             /\ (pc[c] = "gic_off" /\ Steps(c))
                   => (~gic'[c] /\ pwrctl' = pwrctl /\ pc'[c] = "susp_read")
             /\ (pc[c] = "gic_on" /\ Steps(c))
                   => (gic'[c] /\ pwrctl' = pwrctl /\ pc'[c] = "abort_read")
             /\ (op[c] = "suspend" /\ Steps(c) /\ pwrctl' # pwrctl)
                   => (~gic[c] /\ ~gic'[c] /\ pc[c] = "susp_write")
             /\ (op[c] = "abort" /\ Steps(c) /\ pwrctl' # pwrctl)
                   => (gic[c] /\ gic'[c] /\ pc[c] = "abort_write")]_vars

\* reached: a core that completed a suspend (its interface disabled, bit 0
\* set) is about to clear the bit in abort_suspend, its interface enabled again
C14_Witness ==
    \E c \in Cores :
        /\ last.fn = "suspend" /\ last.core = c
        /\ op[c] = "abort" /\ pc[c] = "abort_write"
        /\ gic[c] /\ Bit(pwrctl, 0) = 1

\* C15: pm_client_abort_suspend undoes pm_client_suspend on the executing core:
\* when core c called suspend with its own registered descriptor, the
\* descriptor's bit being clear, and calls abort_suspend next, nothing in
\* between, the write of abort_suspend clears exactly that descriptor's bit
\* (the register is back at its value before the suspend) and the core's
\* interface is enabled.
C15_AbortUndoesSuspend ==
    [][\A c \in Cores :
          (/\ pc[c] = "abort_write" /\ Steps(c)
           /\ last.fn = "suspend" /\ last.core = c /\ last.fresh)
              => /\ ClearsExactly(pwrctl, Deref(pm_get_proc(c)).pwrdn_mask, pwrctl')
                 /\ BitAnd(pwrctl', Deref(pm_get_proc(c)).pwrdn_mask) = 0
                 /\ gic'[c]]_vars

(***************************************************************************)
(* The power-transition actions executed concurrently: every core may      *)
(* enter a function whatever the other cores do, and the register reads    *)
(* and writes of different cores interleave.                               *)
(***************************************************************************)
\* the descriptors of the first two cores and one unregistered descriptor
ConcProcs ==
    { pm_apu_0_proc, pm_apu_1_proc,
      [node_id |-> MaxNodeId, pwrdn_mask |-> 2^(RegBits - 1)] }

PwrNext ==
    \/ \E c \in Cores : PwrCallFrom(c, ConcProcs)
    \/ \E c \in Cores : PwrStep(c)

PwrSpec == Init /\ [][PwrNext]_vars

\* the bits the register write of core c's current function targets
TargetMask(c) ==
    IF op[c] = "abort" THEN PrimaryMask ELSE proc[c].pwrdn_mask

\* C16: under every interleaving of the register reads and writes of different
\* cores no bit change of one action is undone by the write-back of another:
\* the register write of an action changes no bit outside the bits the action
\* targets.  (The first write that breaks this puts back the stale value of a
\* bit that an action of another core, targeting that bit, changed after the
\* writer had read the register.)
C16_NoLostUpdate ==
    [][\A c \in Cores :
          (pc[c] \in {"susp_write", "wake_write", "abort_write"} /\ Steps(c))
              => \A k \in 0 .. (RegBits - 1) :
                    Bit(TargetMask(c), k) = 0 => Bit(pwrctl', k) = Bit(pwrctl, k)]_vars

(***************************************************************************)
(* Further claims about pm_ipi_wait.                                       *)
(***************************************************************************)
\* C17: a polling core holds pm_secure_lock for the whole loop and leaves the
\* loop only on a clear pending bit (no timeout, no error return): as long as
\* the bit stays set the core stays in the loop with the lock, and every core
\* waiting for the lock stays waiting; if the bit is never cleared again the
\* polling core polls for ever and the waiting cores wait for ever.
C17_PollKeepsLock ==
    /\ [](\A c \in Cores : pc[c] = "poll" => lock = {c})
    /\ [][\A c \in Cores :
             /\ (pc[c] = "poll" /\ obs) => (pc'[c] = "poll" /\ lock' = {c})
             /\ (pc[c] = "poll" /\ pc'[c] # "poll") => (~obs /\ pc'[c] = "lock_release")
             /\ (pc[c] = "lock_get" /\ lock # {}) => pc'[c] = "lock_get"]_vars
    /\ \A c \in Cores :
          []((pc[c] = "poll" /\ []obs) => [](pc[c] = "poll" /\ lock = {c}))
    /\ \A c, d \in Cores :
          []((pc[c] = "poll" /\ pc[d] = "lock_get" /\ []obs) => [](pc[d] = "lock_get"))

\* reached: a core polls a set pending bit with the lock while another core,
\* inside a receive, waits for the lock
C17_Witness ==
    \E c, d \in Cores :
        /\ pc[c] = "poll" /\ op[c] = "wait" /\ lock = {c} /\ obs
        /\ pc[d] = "lock_get" /\ op[d] = "recv"

(***************************************************************************)
(* Both halves together: the cores call the mailbox functions and the      *)
(* power-transition functions in any order, one function at a time, while  *)
(* the PMU handles the requests at its own pace.                           *)
(***************************************************************************)
MboxOps == {"wait", "send", "recv"}
PwrOps == {"suspend", "abort", "wakeup"}
InMbox(c) == pc[c] # "idle" /\ op[c] \in MboxOps
InPwr(c) == pc[c] # "idle" /\ op[c] \in PwrOps

MixNext ==
    \/ \E c \in Cores : AllIdle /\ MboxCall(c)
    \/ \E c \in Cores : AllIdle /\ PwrCallFrom(c, ConcProcs)
    \/ \E c \in Cores : MboxStep(c)
    \/ \E c \in Cores : PwrStep(c)
    \/ Pmu

MixSpec == Init /\ [][MixNext]_vars

\* C18: the two halves do not touch each other's state.  A step of suspend,
\* abort_suspend or wakeup leaves the lock, the pending bit and the request and
\* response regions as they are and never holds the lock; a step of wait, send
\* or receive leaves APU_PWRCTL and the interrupt interfaces as they are; and a
\* step inside pm_ipi_wait writes no register at all.
C18_HalvesDisjoint ==
    /\ [](\A c \in lock : InMbox(c))
    /\ [][/\ \A c \in Cores :
                /\ (InPwr(c) /\ Steps(c))
                      => /\ lock' = lock /\ obs' = obs
                         /\ reqbuf' = reqbuf /\ respbuf' = respbuf
                /\ (InMbox(c) /\ (Steps(c) \/ idx'[c] # idx[c]))
                      => (pwrctl' = pwrctl /\ gic' = gic)
                /\ (InWait(c) /\ Steps(c))
                      => (obs' = obs /\ reqbuf' = reqbuf /\ respbuf' = respbuf)
          /\ (pwrctl' # pwrctl \/ gic' # gic)
                => \E c \in Cores : InPwr(c) /\ Steps(c)
          /\ (lock' # lock)
                => \E c \in Cores : InMbox(c) /\ InWait(c) /\ Steps(c)
          /\ (obs' # obs \/ reqbuf' # reqbuf \/ respbuf' # respbuf)
                => \/ pmu' # pmu
                   \/ \E c \in Cores :
                         /\ InMbox(c) /\ pc[c] \in {"write", "trigger"}
                         /\ (Steps(c) \/ idx'[c] # idx[c])]_vars

\* reached: a core is about to set a bit in a suspend while the other core's
\* request is pending, both regions written and bits set in the register
C18_Witness ==
    \E c, d \in Cores :
        /\ op[c] = "suspend" /\ pc[c] = "susp_write" /\ ~gic[c]
        /\ op[d] = "send" /\ pc[d] = "idle"
        /\ obs /\ reqbuf # ZeroBuf /\ respbuf # ZeroBuf
        /\ pwrctl # 0

====
